---- MODULE Spec2Model ----
(***************************************************************************)
(* Model of scrape_scholar.py: the Google Scholar scraper that resolves    *)
(* an author, fills the record, normalizes the publications, checkpoints   *)
(* to gs_data.json and writes the final document.  The program is          *)
(* sequential; the state machine follows its control flow, one action per  *)
(* external call or blocking step.  The lookup service, the file system    *)
(* and the SIGALRM timer are the environment: every call may return,       *)
(* raise, or be interrupted by the alarm.  A behaviour is a sequence of    *)
(* runs of main() over the same gs_data.json.                              *)
(***************************************************************************)
EXTENDS Integers, Sequences, FiniteSets, TLC

VARIABLES
  pc,            \* position of the run in the program
  now,           \* wall clock, in days
  runs,          \* number of runs of main() started so far
  file,          \* gs_data.json: absent, corrupt (unparseable), or a document
  ci,            \* self.is_github_actions of the current run
  alarm,         \* SIGALRM timer: "off", "armed", "fired"
  author,        \* local author / author_filled / found_author
  profile_data,  \* local profile_data
  publications,  \* local publications of _extract_publications
  i,             \* loop index of _extract_publications
  attempt,       \* loop index of the fill retry loop
  alt,           \* TRUE inside _try_alternative_search
  fbFrom,        \* call site of the pending _fallback_data call
  data,          \* value returned by get_profile_data / scrape_all
  exit,          \* exit status of the last finished run
  world,         \* what the lookup service holds for the author
  faults,        \* exceptions and alarms raised by the environment so far
  handler,       \* the SIGALRM handler installed in the process
  hist           \* history of the current run (calls made, faults met)

vars == <<pc, now, runs, file, ci, alarm, author, profile_data, publications,
          i, attempt, alt, fbFrom, data, exit, world, faults, handler, hist>>

-----------------------------------------------------------------------------
(* Bounds of the model *)

MaxPubs == 11     \* entries of the long publication list
ShortPubs == 2    \* entries of the short publication list
MaxEvents == 4    \* runs started plus exceptions and alarms raised, per behaviour

(* Program constants *)

TTL_DAYS == 7
max_fill_attempts == 3
CHECKPOINT_EVERY == 10
MAX_CANDIDATES == 5

-----------------------------------------------------------------------------
(* Python values.  Every value is a record, so that values of different    *)
(* Python types compare unequal: None and a non-dict carry a "py" field;   *)
(* a dict is the record of its keys.                                       *)

NoneV == [py |-> "None"]
JunkV == [py |-> "list"]

IsDict(v) == "py" \notin DOMAIN v
Truthy(v) == v # NoneV /\ v # <<>>
Has(d, k) == k \in DOMAIN d
Get(d, k, dflt) == IF k \in DOMAIN d THEN d[k] ELSE dflt
Del(d, k) == [f \in DOMAIN d \ {k} |-> d[f]]

IntV(n) == [int |-> n]
StrV(s) == [str |-> s]

(* int(x) of line 404 for a string given as its characters: the value,     *)
(* or ValueError (reported as -1) when a character is not a digit.         *)
Digits == <<"0", "1", "2", "3", "4", "5", "6", "7", "8", "9">>
DigitOf(ch) == IF \E n \in 1..10 : Digits[n] = ch
               THEN (CHOOSE n \in 1..10 : Digits[n] = ch) - 1 ELSE -1

RECURSIVE ParseInt(_, _)
ParseInt(chars, acc) ==
  IF chars = <<>> THEN acc
  ELSE IF DigitOf(Head(chars)) < 0 THEN -1
       ELSE ParseInt(Tail(chars), acc * 10 + DigitOf(Head(chars)))

(* Lines 402-406: year is converted when truthy and convertible. *)
KeepRawYear(y) == y
CoerceYear(y) ==
  IF y = NoneV THEN y
  ELSE IF Has(y, "int") THEN y
  ELSE IF y.str = <<>> THEN y
  ELSE IF ParseInt(y.str, 0) < 0 THEN y
  ELSE IntV(ParseInt(y.str, 0))

(* Lines 396-399: venue falls back to journal, then conference. *)
VenueAsGiven(pub, venue) == venue
VenueOf(pub, venue) ==
  IF venue = "" /\ Has(pub, "bib")
  THEN Get(pub.bib, "journal", Get(pub.bib, "conference", ""))
  ELSE venue

(* Lines 384-411: the normalized entry of one raw publication. *)
Normalize(pub) ==
  LET bib == Get(pub, "bib", <<>>) IN
  [ title     |-> Get(bib, "title", ""),
    venue     |-> VenueOf(pub, Get(bib, "venue", "")),
    year      |-> CoerceYear(Get(bib, "pub_year", NoneV)),
    citations |-> Get(pub, "num_citations", 0),
    key       |-> Get(pub, "author_pub_id", "") ]

(* sorted(..., key=citations, reverse=True): stable, descending. *)
RECURSIVE InsertDesc(_, _)
InsertDescUnstable(s, x) ==
  IF s = <<>> THEN <<x>>
  ELSE IF Head(s).citations > x.citations
       THEN <<Head(s)>> \o InsertDesc(Tail(s), x)
       ELSE <<x>> \o s
InsertDesc(s, x) ==
  IF s = <<>> THEN <<x>>
  ELSE IF Head(s).citations >= x.citations
       THEN <<Head(s)>> \o InsertDesc(Tail(s), x)
       ELSE <<x>> \o s

(* The list and each sorted prefix are bound to a value before use. *)
RECURSIVE SortPrefix(_, _)
SortPrefix(s, n) ==
  IF n = 0 THEN <<>>
  ELSE CHOOSE r \in {InsertDesc(prefix, s[n]) : prefix \in {SortPrefix(s, n - 1)}} : TRUE

SortUnchanged(s) == s
SortByCitations(s) == CHOOSE r \in {SortPrefix(v, Len(v)) : v \in {s}} : TRUE

(* Lines 313-335: the nine profile fields, with their defaults. *)
ExtractProfileInfo(a) ==
  [ name               |-> Get(a, "name", ""),
    affiliation        |-> Get(a, "affiliation", ""),
    interests          |-> Get(a, "interests", <<>>),
    email_domain       |-> Get(a, "email_domain", ""),
    homepage           |-> Get(a, "homepage", ""),
    total_citations    |-> Get(a, "citedby", 0),
    h_index            |-> Get(a, "hindex", 0),
    i10_index          |-> Get(a, "i10index", 0),
    citations_per_year |-> Get(a, "cites_per_year", <<>>) ]

ProfileKeys == {"name", "affiliation", "interests", "email_domain", "homepage",
                "total_citations", "h_index", "i10_index", "citations_per_year"}

(* json.dump followed by json.load: the keys of a mapping become strings. *)
JsonKey(k) == IF Has(k, "int") THEN StrV(ToString(k.int)) ELSE k
JsonPairs(m) == [n \in DOMAIN m |-> <<JsonKey(m[n][1]), m[n][2]>>]
JsonDump(doc) == [doc EXCEPT !.citations_per_year = JsonPairs(@)]

-----------------------------------------------------------------------------
(* The lookup service.  world = [n, bad]: the author has n raw             *)
(* publications, in an order that is not the order of their citation       *)
(* counts; entry number bad (if any) is not a dict, so that processing it  *)
(* raises.                                                                 *)

Worlds == {[n |-> ShortPubs, bad |-> -1], [n |-> MaxPubs, bad |-> -1],
           [n |-> MaxPubs, bad |-> 0]}

(* The long list is followed through one run of main(), the short list     *)
(* through as many runs as MaxEvents allows.                               *)
RunsFor(w) == IF w.n = MaxPubs THEN 1 ELSE MaxEvents

Y2021 == StrV(<<"2", "0", "2", "1">>)
YNoDate == StrV(<<"n", ".", "d", ".">>)

RawBib(k) ==
  CASE k % 4 = 0 -> [title |-> "paper", venue |-> "CVPR", pub_year |-> Y2021]
    [] k % 4 = 1 -> [title |-> "paper", journal |-> "TPAMI", pub_year |-> IntV(2020)]
    [] k % 4 = 2 -> [title |-> "paper", venue |-> "", conference |-> "ICCV",
                     pub_year |-> YNoDate]
    [] OTHER     -> [title |-> "paper"]

RawPub(k, w) ==
  IF k = w.bad THEN JunkV
  ELSE [ bib           |-> RawBib(k),
         num_citations |-> k % 3,
         author_pub_id |-> ToString(k) ]

RawPubs(w) == [k \in 1..w.n |-> RawPub(k - 1, w)]

Target == [name |-> "Yuhang Zang", affiliation |-> "Shanghai AI Laboratory",
           filled |-> FALSE]

(* scholarly.fill: the detailed record of a, or a record still without a   *)
(* publication list.                                                       *)
FillOf(a, w) ==
  [ name |-> a.name, affiliation |-> a.affiliation, filled |-> TRUE,
    citedby |-> 42, hindex |-> 3, i10index |-> 1,
    cites_per_year |-> << <<IntV(2020), 5>> >>,
    publications |-> RawPubs(w) ]
FillResults(a, w) == {FillOf(a, w), [a EXCEPT !.filled = TRUE]}

(* scholarly.search_author_id: nothing, a non-dict, a basic or a filled record. *)
LookupResults(w) == {NoneV, JunkV, Target, FillOf(Target, w)}

(* scholarly.search_author: candidates in result order. *)
CandLab == [name |-> "Y. Zang", affiliation |-> "Shanghai AI Lab, CUHK", filled |-> FALSE]
CandName == [name |-> "Yuhang Zang (NTU)", affiliation |-> "NTU", filled |-> FALSE]
CandOther == [name |-> "Yu Zhang", affiliation |-> "MIT", filled |-> FALSE]
SearchResults ==
  { <<>>,
    <<CandOther, CandLab, CandName>>,
    <<CandOther, CandName, CandLab>>,
    <<CandOther, CandOther, CandOther, CandOther, CandLab>>,
    <<CandOther, CandOther, CandOther, CandOther, CandOther, CandLab>> }

(* str.lower() and the "in" test on strings. *)
UpperCase == "ABCDEFGHIJKLMNOPQRSTUVWXYZ"
LowerCase == "abcdefghijklmnopqrstuvwxyz"
LowerMap ==
  [ch \in {SubSeq(UpperCase, n, n) : n \in 1..Len(UpperCase)} |->
     LET n == CHOOSE m \in 1..Len(UpperCase) : SubSeq(UpperCase, m, m) = ch
     IN SubSeq(LowerCase, n, n)]
LowerChar(ch) == IF ch \in DOMAIN LowerMap THEN LowerMap[ch] ELSE ch

RECURSIVE LowerFrom(_, _)
LowerFrom(str, k) ==
  IF k > Len(str) THEN ""
  ELSE LowerChar(SubSeq(str, k, k)) \o LowerFrom(str, k + 1)
Lower(str) == LowerFrom(str, 1)

Contains(str, sub) ==
  \E k \in 1..(Len(str) - Len(sub) + 1) : SubSeq(str, k, k + Len(sub) - 1) = sub

(* Lines 267-268 and 274-275: lower() and the substring tests. *)
AffiliationMatches(c) ==
  LET affiliation == Lower(Get(c, "affiliation", ""))
  IN Contains(affiliation, "shanghai ai laboratory")
     \/ Contains(affiliation, "shanghai ai lab")
NameMatches(c) == Contains(Lower(Get(c, "name", "")), "yuhang zang")
CandidateMatches(c) == AffiliationMatches(c) \/ NameMatches(c)

(* Lines 259-278: the first match among the first MAX_CANDIDATES results. *)
CheckedAll(cands) == 1 .. Len(cands)
Checked(cands) == 1 .. (IF Len(cands) < MAX_CANDIDATES THEN Len(cands) ELSE MAX_CANDIDATES)
HasMatch(cands) == \E n \in Checked(cands) : CandidateMatches(cands[n])
FoundAuthor(cands) ==
  cands[CHOOSE n \in Checked(cands) :
          /\ CandidateMatches(cands[n])
          /\ \A m \in 1..(n - 1) : ~CandidateMatches(cands[m])]

-----------------------------------------------------------------------------
(* Documents and gs_data.json *)

Absent == [kind |-> "absent"]
Corrupt == [kind |-> "corrupt"]
DocFile(d) == [kind |-> "doc", doc |-> JsonDump(d)]
IsDoc(f) == f.kind = "doc"

SetKey(d, k, v) == (k :> v) @@ d

(* Lines 169-174 *)
DirectResult(pd, pubs, t) ==
  pd @@ [publications |-> pubs, last_updated |-> t, scraper_method |-> "scholarly"]

(* Lines 297-303 *)
AlternativeResult(pd, pubs, t) ==
  pd @@ [publications |-> pubs, last_updated |-> t,
         scraper_method |-> "scholarly-alternative",
         note |-> "Found via alternative name search"]

(* round((current / total) * 100, 2), in hundredths of a percent *)
Percentage(current, total) == (2 * 10000 * current + total) \div (2 * total)

(* Lines 434-446 *)
IntermediateNoMethod(pd, pubs, current, total, t) ==
  pd @@ [publications |-> SortByCitations(pubs),
         scraping_progress |-> [current |-> current, total |-> total,
                                percentage |-> Percentage(current, total)],
         last_updated |-> t]
IntermediateZeroBased(pd, pubs, current, total, t) ==
  pd @@ [publications |-> SortByCitations(pubs),
         scraping_progress |-> [current |-> current - 1, total |-> total,
                                percentage |-> Percentage(current - 1, total)],
         last_updated |-> t, scraper_method |-> "scholarly"]
IntermediateResult(pd, pubs, current, total, t) ==
  pd @@ [publications |-> SortByCitations(pubs),
         scraping_progress |-> [current |-> current, total |-> total,
                                percentage |-> Percentage(current, total)],
         last_updated |-> t, scraper_method |-> "scholarly"]

(* Lines 222-236 *)
PlaceholderWithStats(t) ==
  [ name |-> "Yuhang Zang", affiliation |-> "Shanghai AI Laboratory",
    interests |-> <<"Vision Language Model", "Computer Vision",
                    "Natural Language Processing">>,
    email_domain |-> "", homepage |-> "",
    total_citations |-> 42, h_index |-> 3, i10_index |-> 1,
    citations_per_year |-> <<>>, publications |-> <<>>,
    last_updated |-> t, scraper_method |-> "scholarly",
    note |-> "Fallback data due to scraping failure" ]
FallbackPlaceholder(t) ==
  [ name |-> "Yuhang Zang", affiliation |-> "Shanghai AI Laboratory",
    interests |-> <<"Vision Language Model", "Computer Vision",
                    "Natural Language Processing">>,
    email_domain |-> "", homepage |-> "",
    total_citations |-> 0, h_index |-> 0, i10_index |-> 0,
    citations_per_year |-> <<>>, publications |-> <<>>,
    last_updated |-> t, scraper_method |-> "scholarly",
    note |-> "Fallback data due to scraping failure" ]

(* Lines 212-215 *)
LoadNoNote(doc, t) == SetKey(doc, "last_updated", t)
LoadExisting(doc, t) ==
  SetKey(SetKey(doc, "last_updated", t), "note", "Using recent existing data")

(* Lines 242-245 *)
ExistingKeepsTime(doc, t) == SetKey(doc, "note", "Existing data due to scraping failure")
FallbackExisting(doc, t) ==
  SetKey(SetKey(doc, "last_updated", t), "note", "Existing data due to scraping failure")

(* Line 199 *)
IsRecentInclusive(last, t) == t - last <= TTL_DAYS
IsRecentShort(last, t) == t - last < TTL_DAYS - 1
IsRecent(last, t) == t - last < TTL_DAYS

(* Lines 464-465 *)
KeepProgress(d) == d
StripProgress(d) == IF Has(d, "scraping_progress") THEN Del(d, "scraping_progress") ELSE d

(* Line 414 *)
CheckpointAfterCount(idx, pd) == (idx + 1) % CHECKPOINT_EVERY = 0 /\ Truthy(pd)
ShouldCheckpoint(idx, pd) == idx % CHECKPOINT_EVERY = 0 /\ Truthy(pd)

(* Line 145 *)
FillExhausted(a) == a = max_fill_attempts - 1

(* Lines 124 and 349 *)
NeverFilled(a) == FALSE
IsFilled(a) == Get(a, "filled", FALSE)

(* Lines 100 and 104 *)
NeedsSecondLookup(r) == ~Truthy(r) \/ ~IsDict(r) \/ ~Has(r, "publications")

-----------------------------------------------------------------------------
(* Days between the end of a run and the start of the next. *)
Delays == {TTL_DAYS - 1, TTL_DAYS}

(* Outcomes of an external call or blocking step: it returns ("ok"), it    *)
(* raises ("err"), or SIGALRM arrives while it runs and timeout_handler    *)
(* raises TimeoutError, inside the closest try block of the step ("alarm") *)
(* or in the statements around that block ("alarm_out").                   *)

Fire(ev) == ev \in {"alarm", "alarm_out", "alarm_sleep"}
Cost(ev) == IF ev \in {"ok", "none"} THEN 0 ELSE 1
Allowed(ev) == /\ Fire(ev) => alarm = "armed"
               /\ runs + faults + Cost(ev) <= MaxEvents
AlarmAfter(ev) == IF Fire(ev) THEN "fired" ELSE alarm
Seen(ev, h) == IF Fire(ev) THEN [h EXCEPT !.timedOut = TRUE] ELSE h

(* What a write of doc leaves in the file: the document, a truncated file, *)
(* or (the open failed, or the exception came first) the old file.         *)
Written(left, doc) ==
  CASE left = "new" -> DocFile(doc)
    [] left = "partial" -> Corrupt
    [] OTHER -> file

(* The handler that receives an exception raised outside any inner try:    *)
(* line 307 inside _try_alternative_search, else line 178 or line 181.     *)
OuterSite(isTimeout) ==
  IF alt THEN "alt311" ELSE IF isTimeout THEN "h180" ELSE "h185"

FilledFlag(r) == IF Get(r, "filled", FALSE) THEN "yes" ELSE "no"
LookupKind(r) == IF r = NoneV THEN "empty" ELSE IF ~IsDict(r) THEN "junk" ELSE "dict"

NewHist(h, f, ex) ==
  [ nLookup |-> 0, nSearch |-> 0, nFill |-> 0, wrote |-> FALSE, ckptLog |-> {},
    startFile |-> f, path |-> "none", timedOut |-> FALSE, ioFault |-> FALSE,
    writeFault |-> FALSE, lastLookup |-> "none", resFailed |-> FALSE,
    isFilled |-> "unknown", prevExit |-> ex, prevPath |-> h.path,
    fetchTime |-> h.fetchTime, startFetch |-> h.fetchTime,
    cands |-> <<>>, accepted |-> FALSE, dropped |-> {},
    ckptLost |-> FALSE, ckptDoc |-> NoneV ]

Init ==
  /\ handler = "previous"
  /\ pc = "idle"
  /\ now = 0
  /\ runs = 0
  /\ file = Absent
  /\ ci = FALSE
  /\ alarm = "off"
  /\ author = NoneV
  /\ profile_data = NoneV
  /\ publications = <<>>
  /\ i = 0
  /\ attempt = 0
  /\ alt = FALSE
  /\ fbFrom = "none"
  /\ data = NoneV
  /\ exit = "none"
  /\ world \in Worlds
  /\ faults = 0
  /\ hist = NewHist([path |-> "none", fetchTime |-> -1], file, "none")

(* Lines 473-482, 457-461, 23-27, 84-87: main() starts with an identifier, *)
(* some days after the previous run ended; the wrapper arms the alarm; the *)
(* gate is evaluated only in CI.                                           *)
StartRun ==
  /\ pc = "idle"
  /\ runs < RunsFor(world)
  /\ runs + faults < MaxEvents
  /\ \E c \in BOOLEAN, d \in (IF runs = 0 THEN {0} ELSE Delays) :
       /\ now' = now + d
       /\ ci' = c
       /\ pc' = IF c THEN "gate" ELSE "lookup1"
  /\ runs' = runs + 1
  /\ handler' = "timeout_handler"
  /\ alarm' = "armed"
  /\ author' = NoneV
  /\ profile_data' = NoneV
  /\ publications' = <<>>
  /\ i' = 0
  /\ attempt' = 0
  /\ alt' = FALSE
  /\ fbFrom' = "none"
  /\ data' = NoneV
  /\ exit' = "none"
  /\ hist' = NewHist(hist, file, exit)
  /\ UNCHANGED <<file, world, faults>>

(* Lines 187-206: _use_recent_data. *)
UseRecentData ==
  /\ pc = "gate"
  /\ \E ev \in {"ok", "err", "alarm", "alarm_out"} :
       /\ Allowed(ev)
       /\ ev \in {"err", "alarm"} => file # Absent
       /\ alarm' = AlarmAfter(ev)
       /\ faults' = faults + Cost(ev)
       /\ hist' = [Seen(ev, hist) EXCEPT !.ioFault = @ \/ ev = "err"]
       /\ IF ev = "alarm_out"
          THEN pc' = "fallback" /\ fbFrom' = "h180"
          ELSE /\ fbFrom' = fbFrom
               /\ pc' = IF ev = "ok" /\ IsDoc(file)
                           /\ IsRecent(file.doc.last_updated, now)
                        THEN "load" ELSE "lookup1"
  /\ UNCHANGED handler
  /\ UNCHANGED <<now, runs, file, ci, author, profile_data, publications, i,
                 attempt, alt, data, exit, world>>

(* Lines 208-218: _load_existing_data; its result is returned (line 87). *)
LoadExistingData ==
  /\ pc = "load"
  /\ \E ev \in {"ok", "err", "alarm"} :
       /\ Allowed(ev)
       /\ alarm' = AlarmAfter(ev)
       /\ faults' = faults + Cost(ev)
       /\ IF ev = "ok" /\ IsDoc(file)
          THEN /\ data' = LoadExisting(file.doc, now)
               /\ hist' = [hist EXCEPT !.path = "reuse"]
          ELSE /\ data' = NoneV
               /\ hist' = [Seen(ev, hist) EXCEPT !.ioFault = @ \/ ev = "err"]
  /\ pc' = "ret"
  /\ UNCHANGED handler
  /\ UNCHANGED <<now, runs, file, ci, author, profile_data, publications, i,
                 attempt, alt, fbFrom, exit, world>>

(* Lines 116-150 for the record r the lookup left in author. *)
ResolvedOrRetry(r) ==
  /\ pc' = IF ~Truthy(r) /\ hist.nLookup < max_fill_attempts THEN "lookup2"
           ELSE IF ~Truthy(r) THEN "alt_search"
           ELSE IF ~IsDict(r) THEN "fallback"
           ELSE IF IsFilled(r) THEN "profile" ELSE "fill"
  /\ alt' = (~Truthy(r) /\ hist.nLookup >= max_fill_attempts)
  /\ fbFrom' = IF Truthy(r) /\ ~IsDict(r) THEN "h185" ELSE fbFrom
Resolved(r) ==
  /\ pc' = IF ~Truthy(r) THEN "alt_search"
           ELSE IF ~IsDict(r) THEN "fallback"
           ELSE IF IsFilled(r) THEN "profile" ELSE "fill"
  /\ alt' = ~Truthy(r)
  /\ fbFrom' = IF Truthy(r) /\ ~IsDict(r) THEN "h185" ELSE fbFrom

(* Lines 91-100, 109-114: the first lookup, filled=False. *)
LookupById ==
  /\ pc = "lookup1"
  /\ \E ev \in {"ok", "err", "alarm"}, r \in LookupResults(world) :
       /\ Allowed(ev)
       /\ ev # "ok" => r = NoneV
       /\ alarm' = AlarmAfter(ev)
       /\ faults' = faults + Cost(ev)
       /\ IF ev = "ok"
          THEN /\ author' = r
               /\ hist' = [hist EXCEPT !.nLookup = @ + 1, !.lastLookup = LookupKind(r),
                             !.isFilled = IF NeedsSecondLookup(r) THEN @
                                          ELSE FilledFlag(r)]
               /\ IF NeedsSecondLookup(r)
                  THEN pc' = "lookup2" /\ UNCHANGED <<alt, fbFrom>>
                  ELSE Resolved(r)
          ELSE /\ hist' = [Seen(ev, hist) EXCEPT !.nLookup = @ + 1, !.lastLookup = "raised"]
               /\ pc' = "alt_search"
               /\ alt' = TRUE
               /\ UNCHANGED <<author, fbFrom>>
  /\ UNCHANGED handler
  /\ UNCHANGED <<now, runs, file, ci, profile_data, publications, i, attempt,
                 data, exit, world>>

(* Lines 100-121: the second lookup, filled=True. *)
LookupByIdFilled ==
  /\ pc = "lookup2"
  /\ \E ev \in {"ok", "err", "alarm"}, r \in LookupResults(world) :
       /\ Allowed(ev)
       /\ ev # "ok" => r = NoneV
       /\ alarm' = AlarmAfter(ev)
       /\ faults' = faults + Cost(ev)
       /\ IF ev = "ok"
          THEN /\ author' = r
               /\ hist' = [hist EXCEPT !.nLookup = @ + 1, !.lastLookup = LookupKind(r),
                             !.isFilled = IF IsDict(r) THEN FilledFlag(r) ELSE @]
               /\ Resolved(r)
          ELSE /\ hist' = [Seen(ev, hist) EXCEPT !.nLookup = @ + 1, !.lastLookup = "raised"]
               /\ pc' = "alt_search"
               /\ alt' = TRUE
               /\ UNCHANGED <<author, fbFrom>>
  /\ UNCHANGED handler
  /\ UNCHANGED <<now, runs, file, ci, profile_data, publications, i, attempt,
                 data, exit, world>>

(* Lines 133-147: one attempt of the fill retry loop. *)
FillAuthor ==
  /\ pc = "fill"
  /\ \E ev \in {"ok", "err", "alarm"}, r \in FillResults(author, world) :
       /\ Allowed(ev)
       /\ ev # "ok" => r = FillOf(author, world)
       /\ alarm' = AlarmAfter(ev)
       /\ faults' = faults + Cost(ev)
       /\ hist' = [Seen(ev, hist) EXCEPT !.nFill = @ + 1]
       /\ IF ev = "ok"
          THEN author' = r /\ pc' = "profile" /\ attempt' = attempt
          ELSE /\ author' = author
               /\ IF FillExhausted(attempt)
                  THEN pc' = "profile" /\ attempt' = attempt
                  ELSE pc' = "fill" /\ attempt' = attempt + 1
  /\ UNCHANGED handler
  /\ UNCHANGED <<now, runs, file, ci, profile_data, publications, i, alt,
                 fbFrom, data, exit, world>>

(* Lines 153 and 293: _extract_profile_info. *)
ExtractProfile ==
  /\ pc = "profile"
  /\ \E ev \in {"ok", "alarm_out"} :
       /\ Allowed(ev)
       /\ alarm' = AlarmAfter(ev)
       /\ faults' = faults + Cost(ev)
       /\ hist' = Seen(ev, hist)
       /\ IF ev = "ok"
          THEN /\ profile_data' = ExtractProfileInfo(author)
               /\ pc' = "pubs_begin"
               /\ fbFrom' = fbFrom
          ELSE /\ profile_data' = profile_data
               /\ pc' = "fallback"
               /\ fbFrom' = OuterSite(TRUE)
  /\ UNCHANGED handler
  /\ UNCHANGED <<now, runs, file, ci, author, publications, i, attempt, alt,
                 data, exit, world>>

(* Lines 339-369: the head of _extract_publications, with its own fill. *)
ExtractPublicationsBegin ==
  /\ pc = "pubs_begin"
  /\ publications' = <<>>
  /\ i' = 0
  /\ IF Has(author, "publications")
     THEN /\ pc' = IF Len(author.publications) = 0 THEN "sort" ELSE "loop"
          /\ UNCHANGED <<author, alarm, hist, faults>>
     ELSE IF IsFilled(author)
     THEN pc' = "sort" /\ UNCHANGED <<author, alarm, hist, faults>>
     ELSE \E ev \in {"ok", "err", "alarm"}, r \in FillResults(author, world) :
            /\ Allowed(ev)
            /\ ev # "ok" => r = FillOf(author, world)
            /\ alarm' = AlarmAfter(ev)
            /\ faults' = faults + Cost(ev)
            /\ hist' = [Seen(ev, hist) EXCEPT !.nFill = @ + 1]
            /\ IF ev = "ok" /\ Has(r, "publications")
               THEN /\ author' = r
                    /\ pc' = IF Len(r.publications) = 0 THEN "sort" ELSE "loop"
               ELSE author' = author /\ pc' = "sort"
  /\ UNCHANGED handler
  /\ UNCHANGED <<now, runs, file, ci, profile_data, attempt, alt, fbFrom, data,
                 exit, world>>

(* Lines 371 and 415-423: where the loop goes after entry idx; a failed     *)
(* checkpoint (ck) was caught at line 454 and changes nothing.             *)
LoopStopsOnFailure(idx, total, ck) ==
  IF ck \in {"err", "alarm"} \/ idx + 1 >= total THEN "sort" ELSE "loop"
NextIteration(idx, total, ck) == IF idx + 1 < total THEN "loop" ELSE "sort"

(* Lines 371-423: one iteration of the loop.  ev is what happens to the    *)
(* entry: it is normalized and appended ("ok"), the alarm interrupts its   *)
(* processing and it is skipped ("alarm"), or the alarm interrupts the     *)
(* delay after it was appended ("alarm_sleep"); an entry that is not a     *)
(* dict raises and is skipped.  ck is what happens to the checkpoint       *)
(* (lines 415, 431-455) when one is due; its failure is swallowed.         *)
ProcessPublication ==
  /\ pc = "loop"
  /\ LET pub == author.publications[i + 1]
         total == Len(author.publications)
     IN \E ev \in {"ok", "alarm", "alarm_sleep"},
           ck \in {"none", "ok", "err", "alarm"},
           left \in {"old", "partial", "new"} :
          LET appended == ev # "alarm" /\ IsDict(pub)
              pubs == IF appended THEN Append(publications, Normalize(pub))
                      ELSE publications
              due == appended /\ ShouldCheckpoint(i, profile_data)
          IN /\ Fire(ev) => alarm = "armed"
             /\ ck = "alarm" => alarm = "armed" /\ ev = "ok"
             /\ runs + faults + Cost(ev) + Cost(ck) <= MaxEvents
             /\ ev = "alarm_sleep" => IsDict(pub)
             /\ (ck = "none") <=> ~due
             /\ ck = "none" => left = "old"
             /\ ck = "ok" => left = "new"
             /\ ck = "err" => left # "new"
             /\ publications' = pubs
             /\ file' = Written(left, IntermediateResult(profile_data, pubs, i + 1,
                                                         total, now))
             /\ alarm' = IF Fire(ev) \/ ck = "alarm" THEN "fired" ELSE alarm
             /\ faults' = faults + Cost(ev) + Cost(ck)
             /\ hist' = [Seen(ck, Seen(ev, hist)) EXCEPT
                           !.ckptLog = IF due THEN @ \cup {i + 1} ELSE @,
                           !.dropped = IF appended THEN @ ELSE @ \cup {i},
                           !.ckptLost = IF due THEN left # "new" ELSE @,
                           !.ckptDoc = IF due
                                       THEN IntermediateResult(profile_data, pubs,
                                                               i + 1, total, now)
                                       ELSE @,
                           !.wrote = @ \/ left # "old",
                           !.writeFault = @ \/ ck = "err",
                           !.fetchTime = IF left = "new" THEN now
                                         ELSE IF left = "partial" THEN -1 ELSE @]
             /\ i' = i + 1
             /\ pc' = NextIteration(i, total, ck)
  /\ UNCHANGED handler
  /\ UNCHANGED <<now, runs, ci, author, profile_data, attempt, alt, fbFrom,
                 data, exit, world>>

(* Lines 425-429 and 168-176 or 296-305: the final sort and the result. *)
SortAndAssemble ==
  /\ pc = "sort"
  /\ \E ev \in {"ok", "alarm_out"} :
       /\ Allowed(ev)
       /\ alarm' = AlarmAfter(ev)
       /\ faults' = faults + Cost(ev)
       /\ IF ev = "ok"
          THEN /\ publications' = SortByCitations(publications)
               /\ data' = IF alt
                          THEN AlternativeResult(profile_data, publications', now)
                          ELSE DirectResult(profile_data, publications', now)
               /\ hist' = [hist EXCEPT !.path = IF alt THEN "alt" ELSE "direct"]
               /\ pc' = "ret"
               /\ fbFrom' = fbFrom
          ELSE /\ hist' = Seen(ev, hist)
               /\ pc' = "fallback"
               /\ fbFrom' = OuterSite(TRUE)
               /\ UNCHANGED <<publications, data>>
  /\ UNCHANGED handler
  /\ UNCHANGED <<now, runs, file, ci, author, profile_data, i, attempt, alt,
                 exit, world>>

(* Lines 251-282, 307-311: the name search and the choice of a candidate. *)
TryAlternativeSearch ==
  /\ pc = "alt_search"
  /\ \E ev \in {"ok", "err", "alarm"}, cands \in SearchResults :
       /\ Allowed(ev)
       /\ ev # "ok" => cands = <<>>
       /\ alarm' = AlarmAfter(ev)
       /\ faults' = faults + Cost(ev)
       /\ IF ev = "ok" /\ HasMatch(cands)
          THEN /\ author' = FoundAuthor(cands)
               /\ pc' = "alt_fill"
               /\ fbFrom' = fbFrom
               /\ hist' = [hist EXCEPT !.nSearch = @ + 1, !.cands = cands,
                                        !.accepted = TRUE]
          ELSE /\ author' = author
               /\ pc' = "fallback"
               /\ fbFrom' = IF ev = "ok" THEN "alt282" ELSE "alt311"
               /\ hist' = [Seen(ev, hist) EXCEPT !.nSearch = @ + 1, !.resFailed = TRUE,
                                                 !.cands = cands]
  /\ UNCHANGED handler
  /\ UNCHANGED <<now, runs, file, ci, profile_data, publications, i, attempt,
                 alt, data, exit, world>>

(* Lines 284-290: the single fill of the accepted candidate. *)
FillAlternative ==
  /\ pc = "alt_fill"
  /\ \E ev \in {"ok", "err", "alarm"}, r \in FillResults(author, world) :
       /\ Allowed(ev)
       /\ ev # "ok" => r = FillOf(author, world)
       /\ alarm' = AlarmAfter(ev)
       /\ faults' = faults + Cost(ev)
       /\ hist' = [Seen(ev, hist) EXCEPT !.nFill = @ + 1, !.cands = <<>>]
       /\ author' = IF ev = "ok" THEN r ELSE author
  /\ pc' = "profile"
  /\ UNCHANGED handler
  /\ UNCHANGED <<now, runs, file, ci, profile_data, publications, i, attempt,
                 alt, fbFrom, data, exit, world>>

(* Lines 220-249: _fallback_data, called at line 180, 185, 282 or 311.     *)
(* TimeoutError raised outside its try block goes to the handler around    *)
(* the call site; the handler of line 181 has none: the exception leaves   *)
(* get_profile_data (the wrapper cancels the alarm) and main.              *)
FallbackData ==
  /\ pc = "fallback"
  /\ \E ev \in {"ok", "err", "alarm", "alarm_out"} :
       /\ Allowed(ev)
       /\ ev \in {"err", "alarm"} => file # Absent
       /\ alarm' = IF ev = "alarm_out" /\ fbFrom = "h185" THEN "off" ELSE AlarmAfter(ev)
       /\ faults' = faults + Cost(ev)
       /\ IF ev = "alarm_out"
          THEN /\ hist' = [Seen(ev, hist) EXCEPT !.cands = <<>>]
               /\ data' = data
               /\ IF fbFrom = "h185"
                  THEN /\ pc' = "idle"
                       /\ exit' = "exc"
                       /\ fbFrom' = fbFrom
                       /\ handler' = "previous"
                  ELSE /\ pc' = "fallback"
                       /\ exit' = exit
                       /\ fbFrom' = IF fbFrom = "alt282" THEN "alt311" ELSE "h180"
                       /\ handler' = handler
          ELSE /\ data' = IF ev = "ok" /\ IsDoc(file)
                          THEN FallbackExisting(file.doc, now)
                          ELSE FallbackPlaceholder(now)
               /\ hist' = [Seen(ev, hist) EXCEPT !.path = "fallback",
                                                 !.ioFault = @ \/ ev = "err",
                                                 !.cands = <<>>]
               /\ pc' = "ret"
               /\ UNCHANGED <<exit, fbFrom, handler>>
  /\ UNCHANGED <<now, runs, file, ci, author, profile_data, publications, i,
                 attempt, alt, world>>

(* Lines 27-32, 461-471: get_profile_data returns and the wrapper runs its *)
(* finally block, which cancels the alarm (line 29) and puts the previous  *)
(* handler back (line 30); scrape_all strips scraping_progress.  The alarm *)
(* is still pending when the finally block is entered: a SIGALRM delivered *)
(* before line 29 has run makes timeout_handler raise TimeoutError there,  *)
(* lines 29-32 are skipped and the exception leaves the wrapper, scrape_all*)
(* (no handler, lines 460-471) and main (no handler, lines 482-502).       *)
ReturnProfileData ==
  /\ pc = "ret"
  /\ \E ev \in {"ok", "alarm_out"} :
       /\ Allowed(ev)
       /\ faults' = faults + Cost(ev)
       /\ hist' = Seen(ev, hist)
       /\ IF ev = "alarm_out"
          THEN /\ alarm' = AlarmAfter(ev)
               /\ handler' = handler
               /\ data' = NoneV
               /\ exit' = "exc"
               /\ pc' = "idle"
          ELSE /\ alarm' = "off"
               /\ handler' = "previous"
               /\ data' = IF Truthy(data) THEN StripProgress(data) ELSE NoneV
               /\ exit' = exit
               /\ pc' = "main"
  /\ UNCHANGED <<now, runs, file, ci, author, profile_data, publications, i,
                 attempt, alt, fbFrom, world>>

(* Lines 484-502: the final write, or exit status 1; a failed write raises *)
(* out of main and leaves the file as it was or truncated.                 *)
FinishMain ==
  /\ pc = "main"
  /\ IF ~Truthy(data)
     THEN exit' = "1" /\ UNCHANGED <<file, hist, faults>>
     ELSE \E ev \in {"ok", "err"}, left \in {"old", "partial", "new"} :
            /\ Allowed(ev)
            /\ ev = "ok" <=> left = "new"
            /\ faults' = faults + Cost(ev)
            /\ exit' = IF ev = "ok" THEN "0" ELSE "exc"
            /\ file' = Written(left, data)
            /\ hist' = [hist EXCEPT
                          !.wrote = @ \/ left # "old",
                          !.writeFault = @ \/ ev = "err",
                          !.fetchTime = IF left = "partial" THEN -1
                                        ELSE IF left = "old" THEN @
                                        ELSE IF hist.path \in {"direct", "alt"} THEN now
                                        ELSE IF data = FallbackPlaceholder(now) THEN -1
                                        ELSE @]
  /\ pc' = "idle"
  /\ UNCHANGED handler
  /\ UNCHANGED <<now, runs, ci, alarm, author, profile_data, publications, i,
                 attempt, alt, fbFrom, data, world>>

Next ==
  \/ StartRun
  \/ UseRecentData
  \/ LoadExistingData
  \/ LookupById
  \/ LookupByIdFilled
  \/ FillAuthor
  \/ ExtractProfile
  \/ ExtractPublicationsBegin
  \/ ProcessPublication
  \/ SortAndAssemble
  \/ TryAlternativeSearch
  \/ FillAlternative
  \/ FallbackData
  \/ ReturnProfileData
  \/ FinishMain

Spec == Init /\ [][Next]_vars

(* A run that has started keeps executing: every external call returns or  *)
(* raises.  Nothing obliges a new run to start.                            *)
RunStep ==
  \/ UseRecentData
  \/ LoadExistingData
  \/ LookupById
  \/ LookupByIdFilled
  \/ FillAuthor
  \/ ExtractProfile
  \/ ExtractPublicationsBegin
  \/ ProcessPublication
  \/ SortAndAssemble
  \/ TryAlternativeSearch
  \/ FillAlternative
  \/ FallbackData
  \/ ReturnProfileData
  \/ FinishMain

FairSpec == Spec /\ WF_vars(RunStep)

-----------------------------------------------------------------------------
(* Properties *)

RunDone == pc = "idle" /\ runs > 0

FinalKeys == ProfileKeys \cup {"publications", "last_updated", "scraper_method"}
IsFinalDocument(d) == FinalKeys \subseteq DOMAIN d /\ ~Has(d, "scraping_progress")

SameExcept(a, b, ks) ==
  /\ DOMAIN a \ ks = DOMAIN b \ ks
  /\ \A k \in DOMAIN a \ ks : a[k] = b[k]

IsSortedDesc(s) ==
  \A m \in 1..Len(s), n \in 1..Len(s) : m < n => s[m].citations >= s[n].citations

Age(f) == now - f.doc.last_updated

(* The run met no environment fault: no alarm, no failed read or write. *)
QuietRun == ~hist.timedOut /\ ~hist.ioFault /\ ~hist.writeFault

(* C1, as stated: a finished run ended with exit status 0 and the final    *)
(* document in gs_data.json, or with a non-zero status and nothing written *)
(* to gs_data.json during the run.                                         *)
C1_TwoOutcomes ==
  RunDone =>
    \/ exit = "0" /\ file = DocFile(data) /\ IsFinalDocument(file.doc)
    \/ exit # "0" /\ ~hist.wrote

(* C1, amended: a finished run ended in one of three ways: exit status 0   *)
(* with the final document (no scraping_progress) in gs_data.json; exit    *)
(* status 1 with the file untouched; or an uncaught exception, which is    *)
(* the failure of the final write (after which the file may hold a         *)
(* checkpoint of the run or be truncated), a timeout outside every handler *)
(* that left the file untouched, or a timeout inside the wrapper's finally *)
(* block (after which the file holds at most checkpoints of the run).      *)
C1_ThreeOutcomes ==
  RunDone =>
    \/ exit = "0" /\ file = DocFile(data) /\ IsFinalDocument(file.doc)
    \/ exit = "1" /\ ~hist.wrote /\ file = hist.startFile
    \/ exit = "exc" /\ Truthy(data) /\ hist.writeFault
    \/ exit = "exc" /\ ~Truthy(data) /\ ~hist.wrote /\ file = hist.startFile
    \/ /\ exit = "exc" /\ ~Truthy(data) /\ handler = "timeout_handler"
       /\ hist.timedOut
       /\ hist.wrote => hist.ckptLog # {}
       /\ \/ file = hist.startFile
          \/ file = Corrupt
          \/ IsDoc(file) /\ Has(file.doc, "scraping_progress")

C1_Witness ==
  /\ RunDone /\ exit = "exc" /\ hist.wrote
  /\ IsDoc(file) /\ Has(file.doc, "scraping_progress")

(* C2, as stated: once the alarm has fired in get_profile_data, no further *)
(* lookup, search or fill call is made and no further publication is       *)
(* processed.                                                              *)
C2_AlarmAbandonsFetch ==
  [][alarm = "fired" =>
       /\ hist'.nLookup = hist.nLookup
       /\ hist'.nSearch = hist.nSearch
       /\ hist'.nFill = hist.nFill
       /\ i' = i]_vars

(* C3: every document in gs_data.json has its publications in              *)
(* non-increasing order of citation count.                                 *)
C3_FileSorted == IsDoc(file) => IsSortedDesc(file.doc.publications)

C3_Witness ==
  /\ IsDoc(file) /\ Has(file.doc, "scraping_progress")
  /\ Len(file.doc.publications) > CHECKPOINT_EVERY
  /\ ~IsSortedDesc([n \in 1..Len(publications) |-> Normalize(author.publications[n])])

(* C4, as stated: a CI run that starts TTL_DAYS or more after the most     *)
(* recent live fetch that produced the file's data calls the lookup        *)
(* service (in a run that meets no fault).                                 *)
C4_TTLSinceLastFetch ==
  (RunDone /\ ci /\ QuietRun /\ IsDoc(hist.startFile)
     /\ hist.startFetch >= 0 /\ now - hist.startFetch >= TTL_DAYS)
  => hist.nLookup >= 1

(* C4, amended: the TTL counts from the file's last_updated, which every   *)
(* run that writes the file refreshes: a CI run that starts with no        *)
(* parseable file, or TTL_DAYS or more after its last_updated, calls the   *)
(* lookup service, unless the alarm fires first.                           *)
C4_TTLSinceLastUpdate ==
  (RunDone /\ ci
     /\ (IsDoc(hist.startFile) => now - hist.startFile.doc.last_updated >= TTL_DAYS))
  => (hist.nLookup >= 1 \/ hist.timedOut)

C4_Witness ==
  /\ RunDone /\ ci /\ QuietRun /\ IsDoc(hist.startFile)
  /\ now - hist.startFile.doc.last_updated = TTL_DAYS
  /\ hist.startFetch >= 0 /\ hist.startFetch < hist.startFile.doc.last_updated
  /\ hist.nLookup >= 1

(* C5: in CI, a run started less than TTL_DAYS after a run that succeeded, *)
(* and whose file operations succeed without the alarm firing, makes no    *)
(* lookup, search or fill call and writes the first run's document with    *)
(* only last_updated and note changed.                                     *)
C5_IdempotentWithinWindow ==
  (RunDone /\ ci /\ QuietRun /\ hist.prevExit = "0"
     /\ IsDoc(hist.startFile) /\ now - hist.startFile.doc.last_updated < TTL_DAYS)
  => /\ hist.nLookup = 0 /\ hist.nSearch = 0 /\ hist.nFill = 0
     /\ exit = "0" /\ IsDoc(file)
     /\ SameExcept(file.doc, hist.startFile.doc, {"last_updated", "note"})

C5_Witness ==
  /\ RunDone /\ ci /\ QuietRun /\ hist.prevExit = "0" /\ hist.path = "reuse"
  /\ exit = "0" /\ IsDoc(file) /\ Len(file.doc.publications) > 1
  /\ file.doc.last_updated # hist.startFile.doc.last_updated

(* C6, as stated: a run that resolves the author by identifier calls       *)
(* scholarly.fill at most max_fill_attempts times.                         *)
C6_AtMostThreeFills == ~alt => hist.nFill <= max_fill_attempts

(* C6, amended: a run that resolves the author by identifier calls         *)
(* scholarly.fill at most max_fill_attempts + 1 times (the retry loop,     *)
(* then once more in _extract_publications when the record still has no    *)
(* publications), and never when the resolved record is flagged filled.    *)
C6_AtMostFourFills ==
  ~alt => /\ hist.nFill <= max_fill_attempts + 1
          /\ hist.isFilled = "yes" => hist.nFill = 0

C6_Witness == ~alt /\ hist.nFill = max_fill_attempts + 1 /\ hist.isFilled = "no"

(* C7, as stated: when resolution fails completely and a parseable file    *)
(* existed, the run (meeting no fault) exits 0 and writes the prior        *)
(* document with only last_updated (now) and note (failure) changed.       *)
C7_PriorDocumentKept ==
  (RunDone /\ hist.resFailed /\ IsDoc(hist.startFile) /\ QuietRun)
  => /\ exit = "0" /\ IsDoc(file)
     /\ SameExcept(file.doc, hist.startFile.doc, {"last_updated", "note"})
     /\ file.doc.last_updated = now
     /\ file.doc.note = "Existing data due to scraping failure"

(* C7, amended: ... with only last_updated and note changed and            *)
(* scraping_progress removed (the prior file may be a checkpoint).         *)
C7_PriorDocumentKeptStripped ==
  (RunDone /\ hist.resFailed /\ IsDoc(hist.startFile) /\ QuietRun)
  => /\ exit = "0" /\ IsDoc(file)
     /\ SameExcept(file.doc, hist.startFile.doc,
                   {"last_updated", "note", "scraping_progress"})
     /\ ~Has(file.doc, "scraping_progress")
     /\ file.doc.last_updated = now
     /\ file.doc.note = "Existing data due to scraping failure"

C7_Witness ==
  /\ RunDone /\ hist.resFailed /\ IsDoc(hist.startFile) /\ QuietRun
  /\ Has(hist.startFile.doc, "scraping_progress") /\ exit = "0"
  /\ hist.startFile.doc.last_updated # now

(* C8, as stated: two successive successful runs that took different paths *)
(* wrote different scraper_method values.                                  *)
C8_TagsDistinct ==
  (RunDone /\ exit = "0" /\ hist.prevExit = "0" /\ hist.path # hist.prevPath)
  => file.doc.scraper_method # hist.startFile.doc.scraper_method

(* C8, amended: scraper_method has two values, "scholarly-alternative" for *)
(* a document built by the name search and "scholarly" for one built by    *)
(* the direct path or the placeholder; reuse and failure fallback keep the *)
(* tag of the document they return.  The path is identified by note:       *)
(* absent (direct), or one of four fixed texts.                            *)
C8_NoteIdentifiesPath ==
  (RunDone /\ exit = "0") =>
    LET d == file.doc IN
    /\ d.scraper_method \in {"scholarly", "scholarly-alternative"}
    /\ hist.path = "direct" => ~Has(d, "note") /\ d.scraper_method = "scholarly"
    /\ hist.path = "alt" => /\ d.note = "Found via alternative name search"
                            /\ d.scraper_method = "scholarly-alternative"
    /\ hist.path = "reuse" => /\ d.note = "Using recent existing data"
                              /\ d.scraper_method = hist.startFile.doc.scraper_method
    /\ hist.path = "fallback" =>
         \/ d.note = "Existing data due to scraping failure"
         \/ d.note = "Fallback data due to scraping failure"
            /\ d.scraper_method = "scholarly"

C8_Witness ==
  /\ RunDone /\ exit = "0" /\ hist.prevExit = "0"
  /\ hist.path = "reuse" /\ hist.prevPath = "direct"
  /\ file.doc.scraper_method = "scholarly"

(* C9, as stated: every checkpoint is written when the number of           *)
(* publications processed so far is a multiple of CHECKPOINT_EVERY.        *)
C9_EveryTenthCount == \A c \in hist.ckptLog : c % CHECKPOINT_EVERY = 0

(* C9, amended: a checkpoint is written after entry number k (from 0)      *)
(* exactly when k is a multiple of CHECKPOINT_EVERY and the entry was      *)
(* appended (its processing did not raise): after the 1st, 11th, ...       *)
C9_EveryTenthIndex ==
  hist.ckptLog = {c \in 1..i : /\ (c - 1) % CHECKPOINT_EVERY = 0
                               /\ \E n \in 1..Len(publications) :
                                    publications[n].key = ToString(c - 1)}

C9_Witness == hist.ckptLog = {1, CHECKPOINT_EVERY + 1} /\ pc = "sort"

(* C10, as stated: when the last identifier lookup raised or returned an   *)
(* empty or non-dict result, _fallback_data is not reached before the name *)
(* search has run.                                                         *)
C10_SearchBeforeFallback ==
  (pc = "fallback" /\ hist.lastLookup \in {"raised", "empty", "junk"})
  => hist.nSearch >= 1

(* C11: in the name search the accepted candidate is the first, in result  *)
(* order, of the first MAX_CANDIDATES results whose affiliation contains   *)
(* the lab name or whose name contains the target name (both compared in   *)
(* lower case); a later candidate is never accepted; the document returned *)
(* by a run that accepted a candidate (and was not interrupted by the      *)
(* alarm) is built from that candidate and tagged "scholarly-alternative"; *)
(* when none of the first MAX_CANDIDATES matches, _fallback_data is called *)
(* and its document is returned.                                           *)
C11_FirstMatchAmongFive ==
  /\ pc = "alt_fill" =>
       \E n \in 1..Len(hist.cands) :
         /\ n <= MAX_CANDIDATES
         /\ CandidateMatches(hist.cands[n])
         /\ \A m \in 1..(n - 1) : ~CandidateMatches(hist.cands[m])
         /\ author = hist.cands[n]
  /\ (pc = "fallback" /\ fbFrom = "alt282") =>
       /\ ~hist.accepted
       /\ \A n \in 1..Len(hist.cands) :
            n <= MAX_CANDIDATES => ~CandidateMatches(hist.cands[n])
  /\ (pc = "main" /\ hist.accepted /\ ~hist.timedOut) =>
       /\ data.scraper_method = "scholarly-alternative"
       /\ data.name = author.name /\ data.affiliation = author.affiliation
       /\ CandidateMatches(author)
  /\ (pc = "main" /\ hist.nSearch = 1 /\ ~hist.accepted) =>
       /\ hist.path = "fallback"
       /\ data.note \in {"Existing data due to scraping failure",
                         "Fallback data due to scraping failure"}

C11_Witness ==
  /\ pc = "alt_fill" /\ author = CandName
  /\ \E n \in 1..Len(hist.cands) : hist.cands[n] = CandLab

(* C12, as stated: the gate reuses the file only in CI and when the file   *)
(* is a document less than TTL_DAYS old; in every other case, a read or    *)
(* parse error at any moment of the gate included, the run (when the alarm *)
(* does not fire) makes a live lookup and does not end without a document. *)
C12_GateErrorsNotFatal ==
  /\ hist.path = "reuse" =>
       /\ ci /\ IsDoc(hist.startFile)
       /\ now - hist.startFile.doc.last_updated < TTL_DAYS
  /\ (RunDone /\ hist.path # "reuse" /\ ~hist.timedOut) =>
       hist.nLookup >= 1 /\ exit # "1"

(* C13: every checkpoint in gs_data.json has the nine profile fields,      *)
(* publications, last_updated, scraper_method and scraping_progress; a run *)
(* that reads it back as existing data (gate or failure fallback, after a  *)
(* timeout too) returns it as a final document: scraping_progress removed, *)
(* last_updated and note set, everything else unchanged.                   *)
C13_CheckpointRoundTrip ==
  /\ (IsDoc(file) /\ Has(file.doc, "scraping_progress")) =>
       /\ FinalKeys \subseteq DOMAIN file.doc
       /\ DOMAIN file.doc.scraping_progress = {"current", "total", "percentage"}
  /\ (pc = "main" /\ Truthy(data)
        /\ Get(data, "note", "") \in {"Using recent existing data",
                                      "Existing data due to scraping failure"}
        /\ IsDoc(file) /\ Has(file.doc, "scraping_progress")) =>
       /\ hist.path \in {"reuse", "fallback"}
       /\ IsFinalDocument(data)
       /\ SameExcept(data, file.doc, {"last_updated", "note", "scraping_progress"})
       /\ data.last_updated = now

C13_Witness ==
  /\ pc = "main" /\ hist.path = "fallback" /\ hist.timedOut
  /\ IsDoc(file) /\ Has(file.doc, "scraping_progress")
  /\ hist.ckptLog # {} /\ file.doc.last_updated = now
  /\ IsFinalDocument(data) /\ Len(data.publications) >= 1

(* C14: when resolution fails completely (lookup and name search) and      *)
(* gs_data.json is absent or unparseable at the start of the run, the run  *)
(* (its final write succeeding, the wrapper's finally block not cut short  *)
(* by the alarm) exits 0 and the file holds the hardcoded placeholder: zero *)
(* total_citations, h_index and i10_index, no publications, and the        *)
(* failure note.                                                           *)
C14_PlaceholderWritten ==
  (/\ RunDone /\ hist.resFailed /\ ~IsDoc(hist.startFile)
   /\ ~hist.writeFault /\ handler = "previous")
  => /\ exit = "0" /\ IsDoc(file)
     /\ file.doc.name = "Yuhang Zang"
     /\ file.doc.total_citations = 0
     /\ file.doc.h_index = 0
     /\ file.doc.i10_index = 0
     /\ file.doc.publications = <<>>
     /\ file.doc.note = "Fallback data due to scraping failure"
     /\ file.doc.last_updated = now
     /\ IsFinalDocument(file.doc)

C14_Witness ==
  /\ RunDone /\ hist.resFailed /\ hist.startFile = Corrupt /\ exit = "0"
  /\ IsDoc(file) /\ file.doc.note = "Fallback data due to scraping failure"

(* C15: for a record with N raw publications, the publications of the      *)
(* document returned by the direct path are the normalized forms of the    *)
(* entries whose processing did not raise (all N when none raised), in     *)
(* descending order of citations, entries with equal citations in the      *)
(* order of the raw list.                                                  *)
C15_StableSortedNormalized ==
  (pc = "main" /\ hist.path = "direct" /\ Has(author, "publications")) =>
    LET raw == author.publications
        out == data.publications
        kept == {k \in 1..Len(raw) : (k - 1) \notin hist.dropped}
        pos(n) == CHOOSE k \in kept : Normalize(raw[k]) = out[n]
    IN /\ Len(out) = Cardinality(kept)
       /\ \A k \in kept : \E n \in 1..Len(out) : out[n] = Normalize(raw[k])
       /\ \A m \in 1..Len(out), n \in 1..Len(out) :
            m < n => \/ out[m].citations > out[n].citations
                     \/ /\ out[m].citations = out[n].citations
                        /\ pos(m) < pos(n)

C15_Witness ==
  /\ pc = "main" /\ hist.path = "direct" /\ Has(author, "publications")
  /\ hist.dropped # {} /\ Len(data.publications) >= CHECKPOINT_EVERY
  /\ \E m \in 1..Len(data.publications), n \in 1..Len(data.publications) :
       m # n /\ data.publications[m].citations = data.publications[n].citations

(* The document a run would return from _fallback_data had its last        *)
(* checkpoint been written.                                                *)
FallbackFromCheckpoint ==
  StripProgress(FallbackExisting(JsonDump(hist.ckptDoc), now))

(* C16, as stated: when a checkpoint write failed, the document returned   *)
(* by the run is the one it would return had the write succeeded: on the   *)
(* fallback path (the read of the file succeeding) that is the checkpoint. *)
C16_SameAsIfWritten ==
  (pc = "main" /\ hist.ckptLost /\ ~hist.ioFault /\ hist.path = "fallback")
  => data = FallbackFromCheckpoint

(* C16, amended: a failed checkpoint write is swallowed: the run does not  *)
(* go to a failure handler because of it, the entry being processed stays  *)
(* in the list, the loop visits every remaining entry, and when the run    *)
(* completes the fetch (direct or name-search path) the returned document  *)
(* is assembled from the profile and the publications alone and the exit   *)
(* status depends on the final write alone.                                *)
C16_CheckpointFailureSwallowed ==
  /\ (hist.ckptLost /\ ~hist.timedOut) => pc # "fallback" /\ hist.path # "fallback"
  /\ (hist.ckptLost /\ pc \in {"loop", "sort"}) =>
       \A c \in hist.ckptLog :
         \E n \in 1..Len(publications) : publications[n].key = ToString(c - 1)
  /\ (pc = "main" /\ hist.ckptLost /\ hist.path \in {"direct", "alt"}) =>
       /\ i = Len(author.publications)
       /\ Len(data.publications) = i - Cardinality(hist.dropped)
       /\ IsFinalDocument(data)
       /\ SameExcept(data, profile_data,
                     {"publications", "last_updated", "scraper_method", "note"})
       /\ data.publications = publications
  /\ (RunDone /\ hist.ckptLost /\ hist.path \in {"direct", "alt"}) =>
       \/ exit = "0" /\ file = DocFile(data)
       \/ exit = "exc"

C16_Witness ==
  /\ RunDone /\ hist.ckptLost /\ ~hist.timedOut /\ hist.path = "direct"
  /\ exit = "0" /\ file = DocFile(data)
  /\ Len(data.publications) = Len(author.publications)
  /\ Len(data.publications) >= 2

(* The raw entry from which publications[n] was normalized. *)
RawOf(n) ==
  LET raw == author.publications
  IN raw[CHOOSE k \in 1..Len(raw) :
           IsDict(raw[k]) /\ Get(raw[k], "author_pub_id", "") = publications[n].key]

RawBibOf(n) == Get(RawOf(n), "bib", <<>>)

AllDigits(chars) ==
  \A n \in 1..Len(chars) : \E m \in 1..Len(Digits) : chars[n] = Digits[m]

RECURSIVE Join(_)
Join(chars) == IF chars = <<>> THEN "" ELSE Head(chars) \o Join(Tail(chars))

(* C17: after the loop, every entry whose raw year is a string of digits   *)
(* has the corresponding integer as its year; an entry whose raw year is   *)
(* absent, already an integer, or a string that is not a number keeps the  *)
(* raw value; and no entry is missing from the list except those that are  *)
(* not a dict or that the alarm interrupted.                               *)
C17_YearCoercion ==
  (pc = "sort" /\ Has(author, "publications")) =>
    /\ \A n \in 1..Len(publications) :
         LET y == Get(RawBibOf(n), "pub_year", NoneV)
             year == publications[n].year
         IN IF y # NoneV /\ Has(y, "str") /\ y.str # <<>> /\ AllDigits(y.str)
            THEN Has(year, "int") /\ ToString(year.int) = Join(y.str)
            ELSE year = y
    /\ Len(publications) = Len(author.publications) - Cardinality(hist.dropped)
    /\ \A k \in hist.dropped : ~IsDict(author.publications[k + 1]) \/ hist.timedOut

C17_Witness ==
  /\ pc = "sort" /\ Has(author, "publications") /\ hist.dropped = {}
  /\ \E n \in 1..Len(publications) :
       /\ Get(RawBibOf(n), "pub_year", NoneV) = Y2021
       /\ publications[n].year = IntV(2021)
  /\ \E n \in 1..Len(publications) : publications[n].year = YNoDate
  /\ \E n \in 1..Len(publications) : publications[n].year = NoneV

(* C18: after the loop, every entry whose raw venue is missing or empty    *)
(* has the journal field as its venue when the journal field is present,   *)
(* and the conference field when the journal field is absent and the       *)
(* conference field is present; a non-empty raw venue is kept.             *)
C18_VenueFallback ==
  (pc = "sort" /\ Has(author, "publications")) =>
    \A n \in 1..Len(publications) :
      LET bib == RawBibOf(n)
          venue == Get(bib, "venue", "")
      IN /\ (venue = "" /\ Has(bib, "journal")) =>
              publications[n].venue = bib.journal
         /\ (venue = "" /\ ~Has(bib, "journal") /\ Has(bib, "conference")) =>
              publications[n].venue = bib.conference
         /\ venue # "" => publications[n].venue = venue

C18_Witness ==
  /\ pc = "sort" /\ Has(author, "publications")
  /\ \E n \in 1..Len(publications) :
       ~Has(RawBibOf(n), "venue") /\ publications[n].venue = "TPAMI"
  /\ \E n \in 1..Len(publications) :
       /\ Get(RawBibOf(n), "venue", "x") = "" /\ ~Has(RawBibOf(n), "journal")
       /\ publications[n].venue = "ICCV"

(* C19, as stated: in every checkpoint, scraping_progress.current is the   *)
(* number of entries of the checkpoint's publications list, and            *)
(* 1 <= current <= total.                                                  *)
C19_CurrentIsListLength ==
  (IsDoc(file) /\ Has(file.doc, "scraping_progress")) =>
    LET p == file.doc.scraping_progress
    IN /\ p.current = Len(file.doc.publications)
       /\ 1 <= p.current /\ p.current <= p.total

(* C19, amended: in every checkpoint, scraping_progress.current is the     *)
(* number of entries visited so far (the 1-based position of the entry     *)
(* just processed), 1 <= current <= total, and the publications list holds *)
(* between 1 and current entries: current minus the entries skipped before *)
(* the checkpoint.                                                         *)
C19_CurrentIsEntriesVisited ==
  (IsDoc(file) /\ Has(file.doc, "scraping_progress")) =>
    LET p == file.doc.scraping_progress
        n == Len(file.doc.publications)
    IN /\ 1 <= p.current /\ p.current <= p.total
       /\ 1 <= n /\ n <= p.current
       /\ (p.current - 1) % CHECKPOINT_EVERY = 0
       /\ (hist.ckptLog # {} /\ ~hist.ckptLost) =>
            /\ p.current \in hist.ckptLog
            /\ \A c \in hist.ckptLog : c <= p.current
            /\ n = p.current - Cardinality({k \in hist.dropped : k < p.current})

C19_Witness ==
  /\ IsDoc(file) /\ Has(file.doc, "scraping_progress")
  /\ hist.ckptLog # {} /\ ~hist.ckptLost
  /\ Len(file.doc.publications) < file.doc.scraping_progress.current

(* C20: every run terminates, given that every external call returns or    *)
(* raises: a run makes at most 2 identifier lookups and at most 1 name     *)
(* search, visits each publication at most once (the index only grows, no  *)
(* entry appears twice in the list), and a run that has started reaches    *)
(* the end of main.                                                        *)
C20_RunTerminates ==
  /\ [](/\ hist.nLookup <= 2
        /\ hist.nSearch <= 1
        /\ Len(publications) <= i
        /\ (Has(author, "publications") => i <= Len(author.publications))
        /\ \A m \in 1..Len(publications), n \in 1..Len(publications) :
             m # n => publications[m].key # publications[n].key)
  /\ [][pc = "loop" => i' = i + 1]_vars
  /\ (pc # "idle" ~> pc = "idle")

C20_Witness ==
  /\ RunDone /\ hist.nLookup = 2 /\ hist.nSearch = 1
  /\ hist.path = "alt" /\ Has(author, "publications")
  /\ i = Len(author.publications) /\ i >= 2

(* C21, as stated: whenever get_profile_data has returned or raised (the   *)
(* run is in main or has ended), the alarm armed by the wrapper has been   *)
(* cancelled and the previous SIGALRM handler is installed again.  A       *)
(* SIGALRM delivered inside the wrapper's finally block, before line 29,   *)
(* leaves timeout_handler installed and ends the run with TimeoutError.    *)
C21_AlarmCancelledHandlerRestored ==
  pc \in {"main", "idle"} => alarm = "off" /\ handler = "previous"

====
